---- MODULE Spec2Model ----
(***************************************************************************)
(* A model of quicklogic/common/utils/fasm2bels.py (class Fasm2Bels): the  *)
(* FASM feature classifier, the switchbox routing decoder, the hop         *)
(* resolver and the multi-location cell unifier.                           *)
(*                                                                         *)
(* The conversion is a batch pipeline; each phase is modelled with its own *)
(* initial condition, which draws the data that phase receives from        *)
(* bounded sets:                                                           *)
(*   SpecParse    parse_fasm_lines and the three category handlers         *)
(*   SpecDecode   decode_switchbox / expand_mux / process_switchbox        *)
(*   SpecHops     resolve_hops                                             *)
(*   SpecCfg      resolve_multiloc_cells + produce_verilog (cell settings) *)
(*   SpecConn     resolve_multiloc_cells + produce_verilog (connections)   *)
(* Spec is their union.                                                    *)
(***************************************************************************)
EXTENDS Integers, Sequences, FiniteSets, TLC

VARIABLES
    pc,                \* position in the pipeline
    err,               \* the exception that aborted the run, or "none"
    \* ---- Feature Classifier / Cell-Setting Collector
    nlines,            \* FASM lines consumed so far by parse_fasm_lines
    lastline,          \* the FASM line consumed last
    handled,           \* the handlers invoked for lastline
    routingdata,       \* self.routingdata   : loc -> list of RouteEntry
    belinversions,     \* self.belinversions : (loc, bel) -> list of settings
    interfaces,        \* self.interfaces    : (loc, bel) -> list of settings
    \* ---- Switchbox Routing Decoder
    switchbox,         \* the switchbox type being decoded
    sbloc,             \* its grid location
    iterorder,         \* iteration order of each conn_by_dst set
    features,          \* the RouteEntry list given to decode_switchbox
    fidx,              \* entries of features applied so far
    mux_sel,           \* decode_switchbox's selection table
    oidx,              \* output pins expanded so far
    routes,            \* decode_switchbox's routes dict
    \* ---- Hop Resolver
    designconnections, \* self.designconnections : (loc, pin) -> source
    designhops,        \* self.designhops        : (loc, name) -> source name
    connorder,         \* iteration order of self.designconnections
    cidx,              \* connections resolved so far
    tloc,              \* resolve_hops' tloc
    hop,               \* resolve_hops' hop
    \* ---- Multi-Location Cell Unifier
    multiloccells,     \* self.multiloccells (insertion order)
    belinversion,      \* the attribute resolve_multiloc_cells assigns
    vmodule            \* what produce_verilog hands to VModule

vars == <<pc, err, nlines, lastline, handled, routingdata, belinversions,
          interfaces, switchbox, sbloc, iterorder, features, fidx, mux_sel,
          oidx, routes, designconnections, designhops, connorder, cidx, tloc,
          hop, multiloccells, belinversion, vmodule>>

parseVars  == <<nlines, lastline, handled, routingdata, interfaces>>
decodeVars == <<switchbox, sbloc, iterorder, features, fidx, mux_sel, oidx,
                routes>>
hopVars    == <<connorder, cidx, tloc, hop>>
unifyVars  == <<multiloccells, belinversion, vmodule>>

\* A name is a sequence of the tokens its text joins with "_"; None, where a
\* name is expected, is the empty one.
None    == <<>>
NoLoc   == <<0, 0>>
EmptyMap == [k \in {} |-> <<>>]

Range(s) == {s[i] : i \in DOMAIN s}

\* dict.get-style access to a defaultdict(list) entry.
ListAt(map, key) == IF key \in DOMAIN map THEN map[key] ELSE <<>>

\* map[key].append(v) on a defaultdict(list).
Appended(map, key, v) ==
    [k \in DOMAIN map \cup {key} |-> IF k = key THEN Append(ListAt(map, key), v)
                                             ELSE map[k]]

(***************************************************************************)
(* FEATURE CLASSIFIER AND CELL-SETTING COLLECTOR                           *)
(***************************************************************************)

\* Number of FASM lines in the stream.
MaxLines == 2

\* A signature is its dotted text (segs) and, when the text has the shape of
\* one of the two routing patterns, the text of that pattern's digit groups.
CellSig(segs) ==
    [segs |-> segs, fam |-> "none", stage_id |-> <<>>, switch_id |-> <<>>,
     mux_id |-> <<>>, sel_id |-> <<>>]
HighwaySig(sw, sel) ==
    [segs |-> <<>>, fam |-> "highway", stage_id |-> <<>>, switch_id |-> sw,
     mux_id |-> <<>>, sel_id |-> sel]
StreetSig(st, sw, mx, sel) ==
    [segs |-> <<>>, fam |-> "street", stage_id |-> <<st>>, switch_id |-> <<sw>>,
     mux_id |-> mx, sel_id |-> sel]

CellSigs ==
    { CellSig(<<"BEL0", "ZINV", "TA1">>), CellSig(<<"BEL0", "QCK">>),
      CellSig(<<"BEL0">>) }
RoutingSigs ==
    { HighwaySig(<<2>>, <<5>>), HighwaySig(<<1, 0>>, <<0>>) }
    \cup { StreetSig(st, sw, <<0>>, <<3>>) : st \in {0, 1}, sw \in {0, 2} }

FeatureTypes == {"LOGIC", "QMUX", "GMUX", "INTERFACE", "ROUTING", "FOO"}
ParseLocs == {<<1, 1>>, <<2, 3>>}

NoLine ==
    [kind |-> "none", loc |-> NoLoc, typ |-> "", signature |-> CellSig(<<>>),
     value |-> 0]
\* The lines of the stream: lines without a set_feature, lines whose feature
\* text is not X<x>Y<y>.<TYPE>.<signature>, and features.  (A ROUTING
\* feature carries any signature; the other categories carry dotted texts.)
FasmLines ==
    { [NoLine EXCEPT !.kind = "blank"], [NoLine EXCEPT !.kind = "bad"] }
    \cup { [kind |-> "feat", loc |-> l, typ |-> t, signature |-> s, value |-> v] :
             l \in ParseLocs, t \in FeatureTypes \ {"ROUTING"}, s \in CellSigs,
             v \in {0, 1} }
    \cup { [kind |-> "feat", loc |-> l, typ |-> "ROUTING", signature |-> s,
            value |-> v] :
             l \in ParseLocs, s \in RoutingSigs \cup {CellSig(<<"BEL0", "QCK">>)},
             v \in {0, 1} }

\* int() of a decimal digit string.
RECURSIVE DecToInt(_)
DecToInt(ds) ==
    IF ds = <<>> THEN 0
    ELSE 10 * DecToInt(SubSeq(ds, 1, Len(ds) - 1)) + ds[Len(ds)]

\* setting.replace(marker + '.', ''): a marker segment followed by a dot goes.
RECURSIVE StripMarker(_, _)
StripMarker(setting, marker) ==
    IF Len(setting) <= 1 THEN setting
    ELSE IF Head(setting) = marker THEN StripMarker(Tail(setting), marker)
    ELSE <<Head(setting)>> \o StripMarker(Tail(setting), marker)

\* marker + '.' in setting
HasMarker(setting, marker) ==
    \E i \in 1..(Len(setting) - 1) : setting[i] = marker

\* the setting recorded by parse_logic_line
LogicSetting(setting) ==
    IF HasMarker(setting, "ZINV") THEN StripMarker(setting, "ZINV")
    ELSE IF HasMarker(setting, "INV") THEN StripMarker(setting, "INV")
    ELSE setting

\* the setting recorded by parse_interface_line
InterfaceSetting(setting) == StripMarker(StripMarker(setting, "ZINV"), "INV")

\* parse_logic_line: [err, belinversions, interfaces, routingdata]
parse_logic_line(feature, st) ==
    IF Len(feature.signature.segs) < 2 THEN [st EXCEPT !.err = "ValueError"]
    ELSE IF feature.value = 1
    THEN [st EXCEPT !.belinversions =
            Appended(st.belinversions,
                     <<feature.loc, Head(feature.signature.segs)>>,
                     LogicSetting(Tail(feature.signature.segs)))]
    ELSE st

parse_interface_line(feature, st) ==
    IF Len(feature.signature.segs) < 2 THEN [st EXCEPT !.err = "ValueError"]
    ELSE IF feature.value = 1
    THEN [st EXCEPT !.interfaces =
            Appended(st.interfaces,
                     <<feature.loc, Head(feature.signature.segs)>>,
                     InterfaceSetting(Tail(feature.signature.segs)))]
    ELSE st

\* the stage id parse_routing_line gives every HIGHWAY entry
HighwayStage == 3

RouteEntry(typ, stage_id, switch_id, mux_id, sel_id) ==
    [typ |-> typ, stage_id |-> stage_id, switch_id |-> switch_id,
     mux_id |-> mux_id, sel_id |-> sel_id]

\* the RouteEntry parse_routing_line builds from a matching signature
DecodeRoute(sig) ==
    IF sig.fam = "highway"
    THEN RouteEntry("HIGHWAY", HighwayStage, DecToInt(sig.switch_id), 0,
                    DecToInt(sig.sel_id))
    ELSE RouteEntry("STREET", DecToInt(sig.stage_id) - 1,
                    DecToInt(sig.switch_id) - 1, DecToInt(sig.mux_id),
                    DecToInt(sig.sel_id))

\* parse_routing_line: a signature matching neither pattern leaves typ
\* unbound; any other is recorded, whatever the feature's value.
parse_routing_line(feature, st) ==
    IF feature.signature.fam = "none"
    THEN [st EXCEPT !.err = "UnboundLocalError"]
    ELSE [st EXCEPT !.routingdata =
            Appended(st.routingdata, feature.loc, DecodeRoute(feature.signature))]

\* self.featureparsers
featureparsers ==
    [t \in {"LOGIC", "QMUX", "GMUX", "INTERFACE", "ROUTING"} |->
        CASE t = "INTERFACE" -> "parse_interface_line"
          [] t = "ROUTING"   -> "parse_routing_line"
          [] OTHER           -> "parse_logic_line"]

\* self.featureparsers[typ](feature)
Dispatch(feature, st) ==
    CASE featureparsers[feature.typ] = "parse_logic_line" ->
            parse_logic_line(feature, st)
      [] featureparsers[feature.typ] = "parse_interface_line" ->
            parse_interface_line(feature, st)
      [] featureparsers[feature.typ] = "parse_routing_line" ->
            parse_routing_line(feature, st)

\* One iteration of parse_fasm_lines' loop, on the next line of the stream.
ParseLine ==
    /\ pc = "parse"
    /\ nlines < MaxLines
    /\ \E line \in FasmLines :
        LET st0 == [err |-> "none", belinversions |-> belinversions,
                    interfaces |-> interfaces, routingdata |-> routingdata]
            known == line.kind = "feat" /\ line.typ \in DOMAIN featureparsers
            st1 == IF known THEN Dispatch(line, st0) ELSE st0
            e == CASE line.kind = "blank" -> "none"
                   [] line.kind = "bad"   -> "Fasm2BelsException"
                   [] ~known              -> "KeyError"
                   [] OTHER               -> st1.err
        IN  /\ lastline' = line
            /\ nlines' = nlines + 1
            /\ handled' = IF known THEN {featureparsers[line.typ]} ELSE {}
            /\ err' = e
            /\ pc' = IF e = "none" THEN "parse" ELSE "aborted"
            /\ belinversions' = st1.belinversions
            /\ interfaces' = st1.interfaces
            /\ routingdata' = st1.routingdata
    /\ UNCHANGED <<decodeVars, designconnections, designhops, hopVars, unifyVars>>

\* parse_fasm_lines returns: the stream is exhausted.
ParseReturn ==
    /\ pc = "parse"
    /\ nlines = MaxLines
    /\ pc' = "parsed"
    /\ UNCHANGED <<err, parseVars, belinversions, decodeVars, designconnections,
                   designhops, hopVars, unifyVars>>

(***************************************************************************)
(* SWITCHBOX ROUTING DECODER                                               *)
(***************************************************************************)

\* Number of RouteEntry records given to one decode_switchbox call.
MaxFeatures == 3

\* A multiplexer is addressed by <<stage_id, switch_id, mux_id>>; an input
\* pin by <<mux address, pin_id>>.  A switchbox type is
\*   inputs  : mux address -> the names of its input pins, pin_id 0 first
\*             (None for an internal pin)
\*   conns   : the intra-switchbox connections [src mux, dst input pin]
\*   outputs : the output pins [name, loc], loc being locs[0]
Conn(src, dstmux, pin_id) == [src |-> src, dst |-> <<dstmux, pin_id>>]
OutPin(name, loc) == [name |-> name, loc |-> loc]

\* Two stage-0 muxes feed both input pins of a stage-1 mux; input pin 0 has
\* two upstream candidates.
SwitchboxA ==
    [inputs |-> (<<0, 0, 0>> :> <<<<"IN0">>, <<"V1T0", "T1">>>>) @@
                (<<0, 0, 1>> :> <<<<"IN1">>>>) @@
                (<<1, 0, 0>> :> <<None, None>>),
     conns |-> { Conn(<<0, 0, 0>>, <<1, 0, 0>>, 0),
                 Conn(<<0, 0, 1>>, <<1, 0, 0>>, 0),
                 Conn(<<0, 0, 1>>, <<1, 0, 0>>, 1) },
     outputs |-> << OutPin(<<"TA1">>, <<1, 0, 0>>),
                    OutPin(<<"V1T0">>, <<0, 0, 1>>) >>]

\* A HIGHWAY mux behind a stage-1 mux behind a stage-0 mux.
SwitchboxB ==
    [inputs |-> (<<0, 0, 0>> :> <<<<"IN0">>, <<"QCK">>>>) @@
                (<<1, 0, 0>> :> <<None, <<"H1R0", "L1">>>>) @@
                (<<3, 0, 0>> :> <<None, <<"IN1">>>>),
     conns |-> { Conn(<<0, 0, 0>>, <<1, 0, 0>>, 0),
                 Conn(<<1, 0, 0>>, <<3, 0, 0>>, 0) },
     outputs |-> << OutPin(<<"H1R0">>, <<3, 0, 0>>),
                    OutPin(<<"TB1">>, <<1, 0, 0>>) >>]

\* An internal input pin (pin 0 of the stage-1 mux) that no connection ends at.
SwitchboxC ==
    [inputs |-> (<<0, 0, 0>> :> <<<<"IN0">>>>) @@
                (<<1, 0, 0>> :> <<None, None>>),
     conns |-> { Conn(<<0, 0, 0>>, <<1, 0, 0>>, 1) },
     outputs |-> << OutPin(<<"TA1">>, <<1, 0, 0>>) >>]

SwitchboxTypes == {SwitchboxA, SwitchboxB, SwitchboxC}
NoSwitchbox == [inputs |-> EmptyMap, conns |-> {}, outputs |-> <<>>]

\* The RouteEntry records parse_routing_line can have recorded for a location.
RouteEntries ==
    { RouteEntry("STREET", st, 0, mx, sel) :
        st \in {0, 1}, mx \in {0, 1}, sel \in {0, 1} }
    \cup { RouteEntry("HIGHWAY", HighwayStage, 0, 0, sel) : sel \in {0, 1} }

RECURSIVE SeqsUpTo(_, _)
SeqsUpTo(S, n) ==
    IF n = 0 THEN {<<>>}
    ELSE LET shorter == SeqsUpTo(S, n - 1)
         IN  shorter \cup { Append(q, x) : q \in {r \in shorter : Len(r) = n - 1},
                                          x \in S }

MuxOf(e) == <<e.stage_id, e.switch_id, e.mux_id>>

\* conn_by_dst: the destinations, and the sources grouped by destination
ConnDsts(sb) == {c.dst : c \in sb.conns}
ConnSrcs(sb, dst) == {c.src : c \in {d \in sb.conns : d.dst = dst}}

Perms(S) ==
    {q \in [1..Cardinality(S) -> S] : \A i, j \in DOMAIN q : q[i] = q[j] => i = j}

\* The orders in which the sets of conn_by_dst can be iterated.
IterOrders(sb) ==
    {o \in [ConnDsts(sb) -> UNION {Perms(ConnSrcs(sb, d)) : d \in ConnDsts(sb)}] :
        \A d \in ConnDsts(sb) : Range(o[d]) = ConnSrcs(sb, d)}

\* An unset selector is the empty set, a set one the singleton of its value.
Unset == {}

\* The exceptions expand_mux can end with, as results.
KeyError == <<"!KeyError">>
AssertionError == <<"!AssertionError">>
IsError(r) == r \in {KeyError, AssertionError}

\* expand_mux(out_loc), the candidates of an internal pin taken in order ord
RECURSIVE expand_mux(_, _, _, _)
RECURSIVE expand_upstream(_, _, _, _, _)
expand_mux(sb, msel, ord, out_loc) ==
    IF msel[out_loc] = Unset THEN None
    ELSE LET sel == CHOOSE s \in msel[out_loc] : TRUE
         IN  IF sel + 1 \notin DOMAIN sb.inputs[out_loc] THEN KeyError
             ELSE IF sb.inputs[out_loc][sel + 1] # None
                  THEN sb.inputs[out_loc][sel + 1]
             ELSE IF <<out_loc, sel>> \notin ConnDsts(sb) THEN AssertionError
             ELSE expand_upstream(sb, msel, ord, ord[<<out_loc, sel>>], 1)

\* Mutant of expand_upstream: the first candidate's result is returned even
\* when it is None.
expand_upstream_first(sb, msel, ord, cands, i) ==
    IF i > Len(cands) THEN None ELSE expand_mux(sb, msel, ord, cands[i])

\* the loop over conn_by_dst[inp_loc], from its i-th candidate on
expand_upstream(sb, msel, ord, cands, i) ==
    IF i > Len(cands) THEN None
    ELSE LET inp == expand_mux(sb, msel, ord, cands[i])
         IN  IF inp # None THEN inp
             ELSE expand_upstream(sb, msel, ord, cands, i + 1)

\* Mutant of PrepareMuxSel: the table starts at selector 0, not at None.
PrepareMuxSelZero ==
    /\ pc = "decode"
    /\ pc' = "select"
    /\ mux_sel' = [m \in DOMAIN switchbox.inputs |-> {0}]
    /\ UNCHANGED <<err, parseVars, belinversions, switchbox, sbloc, iterorder,
                   features, fidx, oidx, routes, designconnections, designhops,
                   hopVars, unifyVars>>

\* decode_switchbox, lines 283-294: the selection table, every mux unset
PrepareMuxSel ==
    /\ pc = "decode"
    /\ pc' = "select"
    /\ mux_sel' = [m \in DOMAIN switchbox.inputs |-> Unset]
    /\ UNCHANGED <<err, parseVars, belinversions, switchbox, sbloc, iterorder,
                   features, fidx, oidx, routes, designconnections, designhops,
                   hopVars, unifyVars>>

\* Mutant of ApplyFeature: the assertion is gone, a second write overwrites.
ApplyFeatureOverwrite ==
    /\ pc = "select"
    /\ fidx < Len(features)
    /\ LET feature == features[fidx + 1]
           m == MuxOf(feature)
       IN  IF m \notin DOMAIN mux_sel
           THEN /\ pc' = "aborted" /\ err' = "KeyError"
                /\ UNCHANGED <<mux_sel, fidx>>
           ELSE /\ mux_sel' = [mux_sel EXCEPT ![m] = {feature.sel_id}]
                /\ fidx' = fidx + 1
                /\ UNCHANGED <<pc, err>>
    /\ UNCHANGED <<parseVars, belinversions, switchbox, sbloc, iterorder,
                   features, oidx, routes, designconnections, designhops,
                   hopVars, unifyVars>>

\* decode_switchbox, lines 296-300: one iteration of the loop over features
ApplyFeature ==
    /\ pc = "select"
    /\ fidx < Len(features)
    /\ LET feature == features[fidx + 1]
           m == MuxOf(feature)
       IN  IF m \notin DOMAIN mux_sel
           THEN /\ pc' = "aborted" /\ err' = "KeyError"
                /\ UNCHANGED <<mux_sel, fidx>>
           ELSE IF mux_sel[m] # Unset
           THEN /\ pc' = "aborted" /\ err' = "AssertionError"
                /\ UNCHANGED <<mux_sel, fidx>>
           ELSE /\ mux_sel' = [mux_sel EXCEPT ![m] = {feature.sel_id}]
                /\ fidx' = fidx + 1
                /\ UNCHANGED <<pc, err>>
    /\ UNCHANGED <<parseVars, belinversions, switchbox, sbloc, iterorder,
                   features, oidx, routes, designconnections, designhops,
                   hopVars, unifyVars>>

\* decode_switchbox, lines 351-354: one iteration of the loop over outputs
ExpandOutput ==
    /\ pc \in {"select", "expand"}
    /\ fidx = Len(features)
    /\ oidx < Len(switchbox.outputs)
    /\ LET out_pin == switchbox.outputs[oidx + 1]
           inp == expand_mux(switchbox, mux_sel, iterorder, out_pin.loc)
       IN  IF IsError(inp)
           THEN /\ pc' = "aborted"
                /\ err' = IF inp = KeyError THEN "KeyError" ELSE "AssertionError"
                /\ UNCHANGED <<oidx, routes>>
           ELSE /\ pc' = "expand" /\ err' = err
                /\ oidx' = oidx + 1
                /\ routes' = [k \in DOMAIN routes \cup {out_pin.name} |->
                                 IF k = out_pin.name THEN inp ELSE routes[k]]
    /\ UNCHANGED <<parseVars, belinversions, switchbox, sbloc, iterorder,
                   features, fidx, mux_sel, designconnections, designhops,
                   hopVars, unifyVars>>

\* re.match('[VH][0-9][LRBT][0-9]', k): the names that start as a hop wire
HopWireTokens == {"V1T0", "H1R0"}
IsHopWire(k) == k # <<>> /\ k[1] \in HopWireTokens

\* decode_switchbox returns routes (line 356) and process_switchbox files
\* them (lines 373-379).
process_switchbox ==
    /\ pc \in {"select", "expand"}
    /\ fidx = Len(features)
    /\ oidx = Len(switchbox.outputs)
    /\ pc' = "routed"
    /\ LET driven == {k \in DOMAIN routes : routes[k] # None}
           hops == {k \in driven : IsHopWire(k)}
       IN  /\ designhops' =
                [key \in DOMAIN designhops \cup {<<sbloc, k>> : k \in hops} |->
                    IF key[1] = sbloc /\ key[2] \in hops THEN routes[key[2]]
                    ELSE designhops[key]]
           /\ designconnections' =
                [key \in DOMAIN designconnections
                         \cup {<<sbloc, k>> : k \in driven \ hops} |->
                    IF key[1] = sbloc /\ key[2] \in driven \ hops
                    THEN [resolved |-> FALSE, loc |-> NoLoc, name |-> routes[key[2]]]
                    ELSE designconnections[key]]
    /\ UNCHANGED <<err, parseVars, belinversions, decodeVars, hopVars, unifyVars>>

(***************************************************************************)
(* HOP RESOLVER                                                            *)
(***************************************************************************)

\* The hop suffixes of wire names and the offset each encodes.
HopOffsets ==
    ("T1" :> <<0, 1>>) @@ ("B1" :> <<0, -1>>) @@
    ("L1" :> <<-1, 0>>) @@ ("R1" :> <<1, 0>>)

\* connections.get_name_and_hop: (base name, offset) of a hop name,
\* (name, None) of any other name.
get_name_and_hop(name) ==
    IF Len(name) >= 2 /\ name[Len(name)] \in DOMAIN HopOffsets
    THEN [name |-> SubSeq(name, 1, Len(name) - 1), ishop |-> TRUE,
          offset |-> HopOffsets[name[Len(name)]]]
    ELSE [name |-> name, ishop |-> FALSE, offset |-> NoLoc]

NoHop(name) == [name |-> name, ishop |-> FALSE, offset |-> NoLoc]

\* A source not yet resolved (a bare name), and a resolved one.
Bare(name) == [resolved |-> FALSE, loc |-> NoLoc, name |-> name]
Absolute(loc, name) == [resolved |-> TRUE, loc |-> loc, name |-> name]

\* The locations with a switchbox, the sink pins and the source names that
\* process_switchbox can have filed.
HopLocs == {<<2, 3>>, <<2, 4>>, <<1, 3>>}
SinkLocs == {<<2, 3>>, <<1, 3>>}
SinkPins == {<<"TA1">>}
SourceNames ==
    { <<"QCK">>, <<"QCK", "T1">>, <<"V1T0", "T1">>, <<"V1T0", "B1">>,
      <<"V1T0", "L1">> }

\* The dicts with keys in K and values in V.
Dicts(K, V) == UNION { [D -> V] : D \in SUBSET K }

\* resolve_hops, lines 387-390: the next connection of the loop
HopBegin ==
    /\ pc = "hops"
    /\ cidx < Len(connorder)
    /\ hop' = get_name_and_hop(designconnections[connorder[cidx + 1]].name)
    /\ tloc' = connorder[cidx + 1][1]
    /\ pc' = "walk"
    /\ UNCHANGED <<err, parseVars, belinversions, decodeVars, designconnections,
                   designhops, connorder, cidx, unifyVars>>

\* Mutant of HopStep: the hop table is never consulted, every walk is one hop.
HopStepNoChain ==
    /\ pc = "walk"
    /\ hop.ishop
    /\ tloc' = <<tloc[1] + hop.offset[1], tloc[2] + hop.offset[2]>>
    /\ hop' = NoHop(hop.name)
    /\ UNCHANGED <<pc, err, parseVars, belinversions, decodeVars,
                   designconnections, designhops, connorder, cidx, unifyVars>>

\* Mutant of HopStep: a walk that comes back to the location of its own
\* connection stops there.
HopStepStopsAtOrigin ==
    /\ pc = "walk"
    /\ hop.ishop
    /\ LET nloc == <<tloc[1] + hop.offset[1], tloc[2] + hop.offset[2]>>
       IN  /\ tloc' = nloc
           /\ hop' = IF /\ <<nloc, hop.name>> \in DOMAIN designhops
                        /\ nloc # connorder[cidx + 1][1]
                     THEN get_name_and_hop(designhops[<<nloc, hop.name>>])
                     ELSE NoHop(hop.name)
    /\ UNCHANGED <<pc, err, parseVars, belinversions, decodeVars,
                   designconnections, designhops, connorder, cidx, unifyVars>>

\* resolve_hops, lines 391-399: one iteration of the while loop
HopStep ==
    /\ pc = "walk"
    /\ hop.ishop
    /\ LET nloc == <<tloc[1] + hop.offset[1], tloc[2] + hop.offset[2]>>
       IN  /\ tloc' = nloc
           /\ hop' = IF <<nloc, hop.name>> \in DOMAIN designhops
                     THEN get_name_and_hop(designhops[<<nloc, hop.name>>])
                     ELSE NoHop(hop.name)
    /\ UNCHANGED <<pc, err, parseVars, belinversions, decodeVars,
                   designconnections, designhops, connorder, cidx, unifyVars>>

\* Mutant of HopStore: only the entries that went through a hop are rewritten.
HopStoreOnlyHops ==
    /\ pc = "walk"
    /\ ~hop.ishop
    /\ designconnections' =
          IF tloc = connorder[cidx + 1][1] THEN designconnections
          ELSE [designconnections EXCEPT
                  ![connorder[cidx + 1]] = Absolute(tloc, hop.name)]
    /\ cidx' = cidx + 1
    /\ pc' = "hops"
    /\ UNCHANGED <<err, parseVars, belinversions, decodeVars, designhops,
                   connorder, tloc, hop, unifyVars>>

\* resolve_hops, line 400: the while loop has ended, the source is stored
HopStore ==
    /\ pc = "walk"
    /\ ~hop.ishop
    /\ designconnections' =
          [designconnections EXCEPT
             ![connorder[cidx + 1]] = Absolute(tloc, hop.name)]
    /\ cidx' = cidx + 1
    /\ pc' = "hops"
    /\ UNCHANGED <<err, parseVars, belinversions, decodeVars, designhops,
                   connorder, tloc, hop, unifyVars>>

\* resolve_hops returns: the loop over the connections has ended.
HopsReturn ==
    /\ pc = "hops"
    /\ cidx = Len(connorder)
    /\ pc' = "hopped"
    /\ UNCHANGED <<err, parseVars, belinversions, decodeVars, designconnections,
                   designhops, hopVars, unifyVars>>

(***************************************************************************)
(* MULTI-LOCATION CELL UNIFIER                                             *)
(***************************************************************************)

\* Number of cell settings recorded before unification.
MaxSettings == 2

\* The physical tile grid: its locations, and the cell types a tile of each
\* tile type contains.  The tile at (1, 1) is the ASSP tile.
UnifyLocs == {<<1, 1>>, <<2, 1>>, <<2, 2>>}
TileCells ==
    [ LOGIC |-> {"LOGIC"}, ASSP |-> {"ASSP"}, RAM |-> {"RAM"}, MULT |-> {"MULT"},
      ASSP_RAM |-> {"ASSP", "RAM"}, RAM_MULT |-> {"RAM", "MULT"} ]
TileGrids ==
    { g \in [UnifyLocs -> DOMAIN TileCells] : "ASSP" \in TileCells[g[<<1, 1>>]] }

\* assplocs, ramlocs[cellname], multlocs[cellname] of __init__: the
\* locations whose tile type contains a cell of the type
LocsOf(grid, celltype) ==
    {l \in DOMAIN grid : celltype \in TileCells[grid[l]]}

\* self.pinnames for two cell libraries: one whose cell types share no pin
\* name, one in which "PS" is a pin of all three.
PinNamesDisjoint ==
    [ASSP |-> {<<"PA">>}, RAM |-> {<<"PS">>}, MULT |-> {<<"PM">>}]
PinNamesShared ==
    [ASSP |-> {<<"PA">>, <<"PS">>}, RAM |-> {<<"PS">>},
     MULT |-> {<<"PM">>, <<"PS">>}]
AllPinNames == {<<"PA">>, <<"PS">>, <<"PM">>, <<"TA1">>}

MultiLocCellMapping(typ, fromlocset, toloc, pinnames) ==
    [typ |-> typ, fromlocset |-> fromlocset, toloc |-> toloc,
     pinnames |-> pinnames]

\* self.multiloccells as __init__ can build it from a grid (values in
\* insertion order: ASSP, the RAM cell, the MULT cell).  list(set)[0] and
\* list(set)[1] are elements of the set that the set's order decides.
MultiLocTables(grid, pinnames) ==
    LET assp == <<MultiLocCellMapping("ASSP", LocsOf(grid, "ASSP"), <<1, 1>>,
                                      pinnames.ASSP)>>
        rams == IF LocsOf(grid, "RAM") = {} THEN {<<>>}
                ELSE { <<MultiLocCellMapping("RAM0", LocsOf(grid, "RAM"), l,
                                             pinnames.RAM)>> :
                         l \in LocsOf(grid, "RAM") }
        mults == IF LocsOf(grid, "MULT") = {} THEN {<<>>}
                 ELSE { <<MultiLocCellMapping("MULT0", LocsOf(grid, "MULT"), l,
                                              pinnames.MULT)>> :
                          l \in LocsOf(grid, "MULT") }
    IN  { assp \o r \o m : r \in rams, m \in mults }

\* The grids __init__ accepts: list(multlocs[mult])[1] needs two locations.
Constructible(grid) == Cardinality(LocsOf(grid, "MULT")) # 1

\* celltype=None
NoCellType == ""

\* Mutant of remap_multiloc_loc: the pin name is not looked at.
remap_any_pin(table, loc, pinname, celltype) ==
    LET hits == {i \in DOMAIN table : loc \in table[i].fromlocset}
    IN  IF hits = {} THEN loc
        ELSE table[CHOOSE i \in hits : \A j \in hits : i <= j].toloc

\* remap_multiloc_loc(loc, pinname, celltype)
remap_multiloc_loc(table, loc, pinname, celltype) ==
    LET hits == {i \in DOMAIN table :
                    /\ \/ pinname = None
                       \/ pinname \in table[i].pinnames
                       \/ celltype = table[i].typ
                    /\ loc \in table[i].fromlocset}
    IN  IF hits = {} THEN loc
        ELSE table[CHOOSE i \in hits : \A j \in hits : i <= j].toloc

\* belloctype in self.multiloccells
TableKeys(table) == {table[i].typ : i \in DOMAIN table}

\* resolve_multiloc_cells, lines 451-459: newbelinversions after the items of
\* order from the i-th on have been visited
RECURSIVE UnifyBels(_, _, _, _, _)
UnifyBels(table, bels, order, i, acc) ==
    IF i > Len(order) THEN acc
    ELSE LET bellockey == order[i][1]
             belloctype == order[i][2]
             newkey == <<remap_multiloc_loc(table, bellockey, None, belloctype),
                         belloctype>>
         IN  UnifyBels(table, bels, order, i + 1,
                       IF belloctype \in TableKeys(table)
                       THEN [k \in DOMAIN acc \cup {newkey} |->
                               IF k = newkey
                               THEN ListAt(acc, newkey) \o bels[order[i]]
                               ELSE acc[k]]
                       ELSE acc)

\* resolve_multiloc_cells, lines 461-465: newdesignconnections (and the order
\* its keys were inserted in) after the items of order from the i-th on
RECURSIVE UnifyConns(_, _, _, _, _)
UnifyConns(table, conns, order, i, acc) ==
    IF i > Len(order) THEN acc
    ELSE LET loc == order[i][1]
             pin == order[i][2]
             src == conns[order[i]]
             dstloc == remap_multiloc_loc(table, loc, pin, NoCellType)
             srcloc == remap_multiloc_loc(table, src.loc, src.name, NoCellType)
             newkey == <<dstloc, pin>>
         IN  UnifyConns(table, conns, order, i + 1,
                [map |-> [k \in DOMAIN acc.map \cup {newkey} |->
                            IF k = newkey THEN Absolute(srcloc, src.name)
                            ELSE acc.map[k]],
                 order |-> IF newkey \in DOMAIN acc.map THEN acc.order
                           ELSE Append(acc.order, newkey)])

NoConns == [map |-> EmptyMap, order |-> <<>>]

\* The orders in which the nested dict self.belinversions can be iterated:
\* the keys of one location are visited together.
BelOrders(bels) ==
    { o \in Perms(DOMAIN bels) :
        \A i, j, k \in DOMAIN o :
            (i < j /\ j < k /\ o[i][1] = o[k][1]) => o[j][1] = o[i][1] }

\* resolve_multiloc_cells
resolve_multiloc_cells ==
    /\ pc = "unify"
    /\ pc' = "unified"
    /\ \E order \in BelOrders(belinversions) :
          belinversion' = UnifyBels(multiloccells, belinversions, order, 1,
                                    EmptyMap)
    /\ LET new == UnifyConns(multiloccells, designconnections, connorder, 1,
                             NoConns)
       IN  designconnections' = new.map /\ connorder' = new.order
    /\ UNCHANGED <<err, parseVars, belinversions, decodeVars, designhops,
                   cidx, tloc, hop, multiloccells, vmodule>>

\* produce_verilog, lines 475-479: what VModule is given
produce_verilog ==
    /\ pc = "unified"
    /\ pc' = "produced"
    /\ vmodule' = [handed |-> TRUE, belinversions |-> belinversions,
                   interfaces |-> interfaces,
                   designconnections |-> designconnections]
    /\ UNCHANGED <<err, parseVars, belinversions, decodeVars, designconnections,
                   designhops, hopVars, multiloccells, belinversion>>

(***************************************************************************)
(* SPECIFICATIONS                                                          *)
(***************************************************************************)

ParseIdle ==
    /\ nlines = 0 /\ lastline = NoLine /\ handled = {}
    /\ routingdata = EmptyMap /\ interfaces = EmptyMap
DecodeIdle ==
    /\ switchbox = NoSwitchbox /\ sbloc = NoLoc /\ iterorder = EmptyMap
    /\ features = <<>> /\ fidx = 0 /\ mux_sel = EmptyMap /\ oidx = 0
    /\ routes = EmptyMap
HopIdle ==
    /\ connorder = <<>> /\ cidx = 0 /\ tloc = NoLoc
    /\ hop = NoHop(None)
UnifyIdle ==
    /\ multiloccells = <<>> /\ belinversion = EmptyMap
    /\ vmodule = [handed |-> FALSE, belinversions |-> EmptyMap,
                  interfaces |-> EmptyMap, designconnections |-> EmptyMap]

\* Fasm2Bels.__init__, lines 155-164, then convert_to_verilog enters
\* parse_fasm_lines.
InitParse ==
    /\ pc = "parse" /\ err = "none"
    /\ ParseIdle /\ belinversions = EmptyMap
    /\ designconnections = EmptyMap /\ designhops = EmptyMap
    /\ DecodeIdle /\ HopIdle /\ UnifyIdle

NextParse == ParseLine \/ ParseReturn
SpecParse == InitParse /\ [][NextParse]_vars

\* resolve_connections calls process_switchbox for a location with routing
\* features and a switchbox.
InitDecode ==
    /\ pc = "decode" /\ err = "none"
    /\ ParseIdle /\ belinversions = EmptyMap
    /\ designconnections = EmptyMap /\ designhops = EmptyMap
    /\ switchbox \in SwitchboxTypes
    /\ sbloc = <<2, 3>>
    /\ iterorder \in IterOrders(switchbox)
    /\ features \in SeqsUpTo(RouteEntries, MaxFeatures)
    /\ fidx = 0 /\ mux_sel = EmptyMap /\ oidx = 0 /\ routes = EmptyMap
    /\ HopIdle /\ UnifyIdle

NextDecode == PrepareMuxSel \/ ApplyFeature \/ ExpandOutput \/ process_switchbox
SpecDecode == InitDecode /\ [][NextDecode]_vars

\* resolve_connections has processed every switchbox and calls resolve_hops.
InitHops ==
    /\ pc = "hops" /\ err = "none"
    /\ ParseIdle /\ belinversions = EmptyMap /\ DecodeIdle
    /\ designconnections \in
          Dicts(SinkLocs \X SinkPins, {Bare(n) : n \in SourceNames})
    /\ designhops \in Dicts(HopLocs \X {<<"V1T0">>}, SourceNames)
    /\ connorder \in Perms(DOMAIN designconnections)
    /\ cidx = 0 /\ tloc = NoLoc /\ hop = NoHop(None)
    /\ UnifyIdle

NextHops == HopBegin \/ HopStep \/ HopStore \/ HopsReturn
SpecHops == InitHops /\ [][NextHops]_vars

\* resolve_hops is sequential code that nothing suspends: a step that can be
\* taken is taken.
SpecHopsFair == InitHops /\ [][NextHops]_vars /\ WF_vars(NextHops)

\* The settings parse_logic_line can have recorded: for the RAM cell and for
\* a logic cell, at any location.
SettingItems ==
    { <<l, b, x>> : l \in UnifyLocs, b \in {"RAM0", "BEL0"},
                    x \in {<<"S1">>, <<"S2">>} }
RECURSIVE Recorded(_)
Recorded(items) ==
    IF items = <<>> THEN EmptyMap
    ELSE LET last == items[Len(items)]
         IN  Appended(Recorded(SubSeq(items, 1, Len(items) - 1)),
                      <<last[1], last[2]>>, last[3])

NextUnify == resolve_multiloc_cells \/ produce_verilog

\* convert_to_verilog calls resolve_multiloc_cells; cell settings vary.
InitCfg ==
    /\ pc = "unify" /\ err = "none"
    /\ ParseIdle /\ DecodeIdle /\ designhops = EmptyMap
    /\ belinversions \in
          {Recorded(items) : items \in SeqsUpTo(SettingItems, MaxSettings)}
    /\ designconnections =
          (<<<<2, 1>>, <<"PS">>>> :> Absolute(<<2, 2>>, <<"TA1">>))
    /\ connorder = <<<<<<2, 1>>, <<"PS">>>>>>
    /\ cidx = 1 /\ tloc = NoLoc /\ hop = NoHop(None)
    /\ multiloccells \in
          UNION {MultiLocTables(g, PinNamesDisjoint) :
                   g \in {h \in TileGrids : Constructible(h)}}
    /\ belinversion = EmptyMap
    /\ vmodule = [handed |-> FALSE, belinversions |-> EmptyMap,
                  interfaces |-> EmptyMap, designconnections |-> EmptyMap]

SpecCfg == InitCfg /\ [][NextUnify]_vars

\* The hop-resolved connection maps: one connection between any two pins,
\* or connections between "PS" pins at several locations.
ConnMaps ==
    { (<<l, p>> :> Absolute(sl, sp)) :
        l \in UnifyLocs, p \in AllPinNames, sl \in UnifyLocs, sp \in AllPinNames }
    \cup Dicts(UnifyLocs \X {<<"PS">>},
               {Absolute(sl, <<"PS">>) : sl \in UnifyLocs})

\* convert_to_verilog calls resolve_multiloc_cells; connections vary.
InitConn ==
    /\ pc = "unify" /\ err = "none"
    /\ ParseIdle /\ DecodeIdle /\ designhops = EmptyMap
    /\ belinversions = (<<<<2, 1>>, "RAM0">> :> <<<<"S1">>>>)
    /\ designconnections \in ConnMaps
    /\ connorder \in Perms(DOMAIN designconnections)
    /\ cidx = Len(connorder) /\ tloc = NoLoc /\ hop = NoHop(None)
    /\ multiloccells \in
          UNION {MultiLocTables(g, pn) :
                   g \in {h \in TileGrids : Constructible(h)},
                   pn \in {PinNamesDisjoint, PinNamesShared}}
    /\ belinversion = EmptyMap
    /\ vmodule = [handed |-> FALSE, belinversions |-> EmptyMap,
                  interfaces |-> EmptyMap, designconnections |-> EmptyMap]

SpecConn == InitConn /\ [][NextUnify]_vars

\* Every phase, from the data it can receive.
Init == InitParse \/ InitDecode \/ InitHops \/ InitCfg \/ InitConn
Next == NextParse \/ NextDecode \/ NextHops \/ NextUnify
Spec == Init /\ [][Next]_vars

(***************************************************************************)
(* PROPERTIES OF THE SWITCHBOX ROUTING DECODER (under SpecDecode)          *)
(***************************************************************************)

\* The entries of features that repeat the mux of an earlier entry.
IsSecondWrite(j) ==
    \E i \in 1..(j - 1) : MuxOf(features[i]) = MuxOf(features[j])

\* C1: when two entries of the list target the same (stage, switch, mux),
\* decoding never gets past the second one: applying it aborts with the
\* assertion's conflicting-assignment error, every selector written so far is
\* still the one its first entry wrote, and no route map is returned.
C1_ConflictAborts ==
    /\ \A i \in 1..fidx : mux_sel[MuxOf(features[i])] = {features[i].sel_id}
    /\ \A j \in 1..Len(features) :
          IsSecondWrite(j) =>
            /\ fidx < j
            /\ pc \notin {"expand", "routed"}
            /\ routes = EmptyMap
            /\ (pc = "aborted" /\ fidx = j - 1) => err = "AssertionError"

C1_Witness ==
    /\ pc = "aborted" /\ err = "AssertionError"
    /\ fidx = 1 /\ Len(features) >= 2
    /\ MuxOf(features[2]) = MuxOf(features[1])
    /\ features[2].sel_id # features[1].sel_id
    /\ mux_sel[MuxOf(features[1])] = {features[1].sel_id}

OutputNames(sb) == {sb.outputs[i].name : i \in DOMAIN sb.outputs}
OutputLoc(sb, k) ==
    (CHOOSE o \in Range(sb.outputs) : o.name = k).loc

\* C7: an output pin whose output mux has no selector resolves to None and
\* raises nothing; with no routing entries decoding returns a map holding
\* every declared output pin, each mapped to None.
C7_UnsetIsNone ==
    /\ \A k \in DOMAIN routes :
          mux_sel[OutputLoc(switchbox, k)] = Unset => routes[k] = None
    /\ (pc = "aborted" /\ fidx = Len(features)) =>
          mux_sel[switchbox.outputs[oidx + 1].loc] # Unset
    /\ features = <<>> =>
          /\ pc # "aborted"
          /\ pc = "routed" =>
                /\ DOMAIN routes = OutputNames(switchbox)
                /\ \A k \in DOMAIN routes : routes[k] = None

C7_Witness ==
    /\ pc = "routed" /\ features = <<>>
    /\ DOMAIN routes = OutputNames(switchbox)
    /\ \A k \in DOMAIN routes : routes[k] = None

\* The pin a mux selects, when its selector is set to one of its pins.
Selects(sb, msel, m) ==
    msel[m] # Unset /\ \A s \in msel[m] : s + 1 \in DOMAIN sb.inputs[m]
SelectedPin(sb, msel, m) ==
    sb.inputs[m][(CHOOSE s \in msel[m] : TRUE) + 1]
SelectedDst(msel, m) == <<m, CHOOSE s \in msel[m] : TRUE>>

\* The chains of set muxes that start at mux m: each mux of the chain selects
\* an internal pin fed by the next one.
MuxChains(sb, msel, m) ==
    { p \in SeqsUpTo(DOMAIN sb.inputs, Cardinality(DOMAIN sb.inputs)) :
        /\ p # <<>> /\ p[1] = m
        /\ \A i \in DOMAIN p : Selects(sb, msel, p[i])
        /\ \A i \in 1..(Len(p) - 1) :
              /\ SelectedPin(sb, msel, p[i]) = None
              /\ Conn(p[i + 1], p[i], SelectedDst(msel, p[i])[2]) \in sb.conns }

\* The named inputs reached from mux m through set muxes.
NamedReach(sb, msel, m) ==
    { SelectedPin(sb, msel, p[Len(p)]) : p \in MuxChains(sb, msel, m) } \ {None}

\* The upstream candidates of mux m's selected pin that reach a named input,
\* in iteration order.
ActiveBranches(sb, msel, ord, m) ==
    IF Selects(sb, msel, m) /\ SelectedPin(sb, msel, m) = None
       /\ SelectedDst(msel, m) \in DOMAIN ord
    THEN SelectSeq(ord[SelectedDst(msel, m)],
                   LAMBDA c : NamedReach(sb, msel, c) # {})
    ELSE <<>>

\* C10: a returned route of an output whose mux is set is found by following
\* selected inputs upstream: the selected pin's name if it is named; else the
\* result of the first upstream candidate (in iteration order) that reaches
\* a named input; None only if no chain of set muxes reaches a named input;
\* and the unique reachable named input when there is only one.
C10_FollowsSelectedInputs ==
    \A k \in DOMAIN routes :
        LET m == OutputLoc(switchbox, k)
            reach == NamedReach(switchbox, mux_sel, m)
            active == ActiveBranches(switchbox, mux_sel, iterorder, m)
        IN  mux_sel[m] # Unset =>
              /\ SelectedPin(switchbox, mux_sel, m) # None =>
                    routes[k] = SelectedPin(switchbox, mux_sel, m)
              /\ routes[k] = None <=> reach = {}
              /\ routes[k] # None => routes[k] \in reach
              /\ active # <<>> =>
                    routes[k] \in NamedReach(switchbox, mux_sel, active[1])
              /\ Cardinality(reach) = 1 => reach = {routes[k]}

\* Both upstream candidates of the selected internal pin reach a named input.
C10_Witness ==
    /\ pc = "routed"
    /\ \E k \in DOMAIN routes :
          LET m == OutputLoc(switchbox, k)
          IN  /\ mux_sel[m] # Unset
              /\ SelectedPin(switchbox, mux_sel, m) = None
              /\ Cardinality(NamedReach(switchbox, mux_sel, m)) = 2
              /\ routes[k] # None

(***************************************************************************)
(* PROPERTIES OF THE FEATURE CLASSIFIER (under SpecParse)                  *)
(***************************************************************************)

\* C3: dispatching a feature whose value is 0 leaves the cell-setting map,
\* the IO-setting map and the per-location routing records as they were.
C3_ValueZeroIsNoOp ==
    [][ (nlines' = nlines + 1 /\ lastline'.kind = "feat" /\ lastline'.value = 0)
          => /\ belinversions' = belinversions
             /\ interfaces' = interfaces
             /\ routingdata' = routingdata ]_vars

\* The RouteEntry recorded for the feature consumed last.
LastEntry == routingdata[lastline.loc][Len(routingdata[lastline.loc])]
RoutingRecorded ==
    /\ lastline.kind = "feat" /\ lastline.typ = "ROUTING"
    /\ lastline.signature.fam # "none" /\ err = "none"

\* C8: every recorded routing address has non-negative stage, switch, mux
\* and selector; a STREET address has the textual stage and switch minus 1
\* and the textual mux and selector, a HIGHWAY address the fixed stage, mux 0
\* and the textual switch and selector.
C8_IndicesNonNegative ==
    /\ \A l \in DOMAIN routingdata : \A i \in DOMAIN routingdata[l] :
          LET e == routingdata[l][i]
          IN  e.stage_id >= 0 /\ e.switch_id >= 0 /\ e.mux_id >= 0 /\ e.sel_id >= 0
    /\ (RoutingRecorded /\ lastline.signature.fam = "street") =>
          /\ LastEntry.stage_id = lastline.signature.stage_id[1] - 1
          /\ LastEntry.switch_id = lastline.signature.switch_id[1] - 1
    /\ (RoutingRecorded /\ lastline.signature = StreetSig(1, 2, <<0>>, <<3>>)) =>
          LastEntry = RouteEntry("STREET", 0, 1, 0, 3)
    /\ (RoutingRecorded /\ lastline.signature = HighwaySig(<<2>>, <<5>>)) =>
          LastEntry = RouteEntry("HIGHWAY", HighwayStage, 2, 0, 5)

\* C9: each feature goes to exactly one category handler, and a feature
\* whose category has no registered handler fails with the module's
\* Fasm2BelsException, no handler having been invoked for it.
C9_UnregisteredRaisesFasm2Bels ==
    lastline.kind = "feat" =>
        IF lastline.typ \in DOMAIN featureparsers
        THEN Cardinality(handled) = 1
        ELSE pc = "aborted" /\ err = "Fasm2BelsException" /\ handled = {}

(***************************************************************************)
(* PROPERTIES OF THE HOP RESOLVER (under SpecHops)                         *)
(***************************************************************************)

\* Hop-table lookups a terminating walk can make.
WalkFuel == 6

Diverges == <<NoLoc, None>>

\* The walk from location L with source name s: (L, s) if s is no hop name;
\* else advance by the offset, and continue from the hop table's entry for
\* the base name at the new location, or stop there with the base name.
RECURSIVE HopWalk(_, _, _, _)
HopWalk(hops, L, s, fuel) ==
    LET h == get_name_and_hop(s)
        nloc == <<L[1] + h.offset[1], L[2] + h.offset[2]>>
    IN  IF ~h.ishop THEN <<L, s>>
        ELSE IF <<nloc, h.name>> \notin DOMAIN hops THEN <<nloc, h.name>>
        ELSE IF fuel = 0 THEN Diverges
        ELSE HopWalk(hops, nloc, hops[<<nloc, h.name>>], fuel - 1)

\* C4: when resolve_hops returns, every entry's source is an absolute
\* (location, pin name) pair whose pin name is no hop name, and the keys of
\* the connection map are those it had before the pass.
C4_AllSourcesAbsolute ==
    /\ DOMAIN designconnections = Range(connorder)
    /\ \A i \in 1..cidx :
          /\ designconnections[connorder[i]].resolved
          /\ designconnections[connorder[i]].loc # NoLoc
    /\ pc = "hopped" =>
          \A key \in DOMAIN designconnections :
              /\ designconnections[key].resolved
              /\ designconnections[key].name # None
              /\ ~get_name_and_hop(designconnections[key].name).ishop

C4_Witness ==
    /\ pc = "hopped"
    /\ Cardinality(DOMAIN designconnections) = 2
    /\ \E key \in DOMAIN designconnections :
          designconnections[key].loc # key[1]
    /\ \E key \in DOMAIN designconnections :
          designconnections[key].loc = key[1]

\* C5: the source stored for a connection at L with source name s is the
\* result of the walk from (L, s).
C5_StoresWalkResult ==
    [][ (pc = "walk" /\ pc' = "hops") =>
          LET key == connorder[cidx + 1]
              res == HopWalk(designhops, key[1], designconnections[key].name,
                             WalkFuel)
          IN  designconnections'[key] = Absolute(res[1], res[2]) ]_vars

\* A hop at (2,3) with offset (0,+1) and no hop-table entry for its base
\* name at (2,4) has been resolved to ((2,4), base name).
C5_Witness ==
    /\ cidx >= 1
    /\ connorder[cidx] = <<<<2, 3>>, <<"TA1">>>>
    /\ <<<<2, 4>>, <<"V1T0">>>> \notin DOMAIN designhops
    /\ designconnections[connorder[cidx]] = Absolute(<<2, 4>>, <<"V1T0">>)

(***************************************************************************)
(* PROPERTIES OF THE MULTI-LOCATION CELL UNIFIER (under SpecCfg, SpecConn) *)
(***************************************************************************)

\* How many times x occurs in the list q.
Count(q, x) == Cardinality({i \in DOMAIN q : q[i] = x})

\* How many times setting x was recorded for cell bel at the locations locs.
RECURSIVE CountAt(_, _, _, _)
CountAt(bels, locs, bel, x) ==
    IF locs = {} THEN 0
    ELSE LET l == CHOOSE l \in locs : TRUE
         IN  Count(ListAt(bels, <<l, bel>>), x)
             + CountAt(bels, locs \ {l}, bel, x)

\* C2: the configuration map handed to the structural-output generator
\* holds, for a multi-location cell with settings recorded at two or more
\* locations of its footprint, one entry, at the canonical location, with
\* every setting as many times as it was recorded at those locations.
C2_HandedSettingsUnified ==
    pc = "produced" =>
      \A i \in DOMAIN multiloccells :
        LET m == multiloccells[i]
            srcs == {l \in m.fromlocset : <<l, m.typ>> \in DOMAIN belinversions}
            held == {l \in UnifyLocs :
                       <<l, m.typ>> \in DOMAIN vmodule.belinversions}
        IN  Cardinality(srcs) >= 2 =>
              /\ held = {m.toloc}
              /\ \A x \in {<<"S1">>, <<"S2">>} :
                    Count(vmodule.belinversions[<<m.toloc, m.typ>>], x)
                      = CountAt(belinversions, srcs, m.typ, x)

\* No mapping's canonical location lies in the footprint of another mapping
\* that shares a pin name with it.
Separated(table) ==
    \A i, j \in DOMAIN table :
        (i # j /\ table[i].pinnames \cap table[j].pinnames # {})
          => table[i].toloc \notin table[j].fromlocset

\* The connection remapping applied to the map as it is now.
UnifiedAgain ==
    UnifyConns(multiloccells, designconnections, connorder, 1, NoConns).map

\* C6 as stated: for every connection map and every multi-location cell
\* table, remapping the already-unified map again gives the same map.
C6_UnifyIdempotent ==
    pc \in {"unified", "produced"} => UnifiedAgain = designconnections

\* C6, amended: when no mapping's canonical location lies in the footprint
\* of another mapping sharing a pin name with it, remapping the
\* already-unified map again gives the same map, and every canonical
\* location is a fixed point of remap_multiloc_loc for the pin names of its
\* mapping.
C6_IdempotentWhenSeparated ==
    (pc \in {"unified", "produced"} /\ Separated(multiloccells)) =>
      /\ UnifiedAgain = designconnections
      /\ \A i \in DOMAIN multiloccells :
            \A p \in multiloccells[i].pinnames :
                remap_multiloc_loc(multiloccells, multiloccells[i].toloc, p,
                                   NoCellType) = multiloccells[i].toloc

\* A unified map with a sink at the canonical location of a cell that
\* occupies several locations, one of them in another cell's footprint.
C6_Witness ==
    /\ pc = "unified" /\ Separated(multiloccells)
    /\ \E i, j \in DOMAIN multiloccells :
          /\ i # j
          /\ multiloccells[i].fromlocset \cap multiloccells[j].fromlocset # {}
          /\ Cardinality(multiloccells[i].fromlocset) >= 2
          /\ \E key \in DOMAIN designconnections :
                /\ key[1] = multiloccells[i].toloc
                /\ key[2] \in multiloccells[i].pinnames
                /\ designconnections[key].loc = multiloccells[i].toloc
                /\ designconnections[key].name \in multiloccells[i].pinnames

\* The mapping of the table whose cell type is typ.
MappingOf(table, typ) ==
    table[CHOOSE i \in DOMAIN table : table[i].typ = typ]

\* C11: the unified cell-setting map holds the settings of a multi-location
\* cell that were recorded inside the cell's own footprint at that cell's
\* canonical location, and at no other location (in particular not at the
\* canonical location of another cell type whose footprint also contains
\* the location they were recorded at).
C11_SettingsKeyedByCellType ==
    pc \in {"unified", "produced"} =>
      \A typ \in TableKeys(multiloccells) :
        LET m == MappingOf(multiloccells, typ)
            recs == {l \in UnifyLocs : <<l, typ>> \in DOMAIN belinversions}
            held == {l \in UnifyLocs : <<l, typ>> \in DOMAIN belinversion}
        IN  (recs # {} /\ recs \subseteq m.fromlocset) => held = {m.toloc}

(***************************************************************************)
(* TERMINATION OF THE HOP RESOLVER (under SpecHopsFair)                    *)
(***************************************************************************)

\* The walk from location L with source name s consults the hop table at a
\* (location, base name) pair it has consulted before (those are in seen).
RECURSIVE Revisits(_, _, _, _)
Revisits(hops, L, s, seen) ==
    LET h == get_name_and_hop(s)
        nloc == <<L[1] + h.offset[1], L[2] + h.offset[2]>>
        at == <<nloc, h.name>>
    IN  IF ~h.ishop \/ at \notin DOMAIN hops THEN FALSE
        ELSE IF at \in seen THEN TRUE
        ELSE Revisits(hops, nloc, hops[at], seen \cup {at})

\* Some connection's source leads into a cyclic hop chain.
SomeSourceCycles ==
    \E key \in DOMAIN designconnections :
        /\ ~designconnections[key].resolved
        /\ Revisits(designhops, key[1], designconnections[key].name, {})

\* C12: from the connection map and hop table resolve_hops is entered with,
\* the pass eventually returns if no source's hop chain revisits a
\* (location, base name) pair, and never returns if some source's does.
C12_TerminatesIffNoCycle ==
    /\ (~SomeSourceCycles) => <>(pc = "hopped")
    /\ SomeSourceCycles => [](pc # "hopped")

\* One connection has been resolved and stored, and the walk of the next is
\* inside a cyclic chain, at a hop-table entry away from its own location.
C12_Witness ==
    /\ pc = "walk" /\ cidx = 1
    /\ designconnections[connorder[1]].resolved
    /\ Revisits(designhops, connorder[2][1],
                designconnections[connorder[2]].name, {})
    /\ tloc # connorder[2][1]
    /\ hop.ishop
    /\ <<tloc, hop.name>> \in DOMAIN designhops

====
